---------------------------- MODULE Spec2Model ----------------------------
(***************************************************************************)
(* scripts/snyk-github-issue-sync.ts: one pass that groups the findings of *)
(* a Snyk report by vulnerability id, indexes the open issues labelled     *)
(* snyk-vulnerability by the id in their title, and creates, updates or    *)
(* closes issues so that the tracker matches the report.                   *)
(*                                                                         *)
(* Strings the script inspects character by character (issue titles and    *)
(* vulnerability ids) are tuples of one-character strings.  A JavaScript   *)
(* object used as a dictionary is a sequence of <<key, value>> pairs in    *)
(* insertion order (the order of Object.entries for keys that are not      *)
(* array indices; no id of the model is one).  Issue numbers are the       *)
(* positions in the tracker's issue sequence, so they start at 1.  The     *)
(* ids of the model never name a member of Object.prototype.               *)
(***************************************************************************)
EXTENDS Integers, Sequences, FiniteSets, TLC

VARIABLES
    tracker,              \* the repository's issues, by number
    report,               \* snyk.json
    isDryRun,             \* 'dryrun' in argv
    pc,                   \* position of main: fetch, group, update, close, done, failed
    page,                 \* next page of the list iterator
    snykGithubIssueMap,   \* the issue index
    vulnerabilityStore,   \* the grouped vulnerabilities
    cursor,               \* position of the for..of loop at pc
    requests,             \* this run's calls to the tracker, in order
    log,                  \* this run's console.log decisions, in order
    exitCode,             \* <<>> while running, <<code>> once exited
    run,                  \* 1: first invocation of the script, 2: second
    tracker0,             \* the tracker when this run started
    prev                  \* how the previous run ended

vars == <<tracker, report, isDryRun, pc, page, snykGithubIssueMap,
          vulnerabilityStore, cursor, requests, log, exitCode, run,
          tracker0, prev>>

---------------------------------------------------------------------------
(* Bounds of the model *)

\* issues in the tracker before the first run
MaxIssues == 2
\* projects in snyk.json
MaxProjects == 2
\* findings of one project, in the reports of SpecGroup
MaxFindings == 1
\* per_page of the list request, scaled down so that several pages occur
PerPage == 1
\* length of the vulnerability ids of SpecTitle
MaxIdLen == 2

SeqsUpTo(S, n) == UNION {[1..k -> S] : k \in 0..n}

Min(a, b) == IF a < b THEN a ELSE b

---------------------------------------------------------------------------
(* Program constants *)

SNYK_GH_LABEL == "snyk-vulnerability"

HELP_WANTED == "help wanted"

\* the value of a property that is absent from the JSON
UNDEFINED == "undefined"

UpperCase ==
    {"A","B","C","D","E","F","G","H","I","J","K","L","M",
     "N","O","P","Q","R","S","T","U","V","W","X","Y","Z"}

LowerCase ==
    {"a","b","c","d","e","f","g","h","i","j","k","l","m",
     "n","o","p","q","r","s","t","u","v","w","x","y","z"}

Digits == {"0","1","2","3","4","5","6","7","8","9"}

\* the class [A-Z0-9-:] under the i flag
IsIdChar(c) == c \in UpperCase \cup LowerCase \cup Digits \cup {"-", ":"}

\* length of the longest run of class characters of s that starts at i
RECURSIVE RunLen(_, _)
RunLen(s, i) ==
    IF i <= Len(s) /\ IsIdChar(s[i]) THEN 1 + RunLen(s, i + 1) ELSE 0

\* /\[([A-Z0-9-:]+)]/i matches at i: "[", a greedy non-empty run, "]".
\* No shorter run can match, since the character after it is in the class.
MatchAt(s, i) ==
    /\ s[i] = "["
    /\ RunLen(s, i + 1) >= 1
    /\ i + 1 + RunLen(s, i + 1) <= Len(s)
    /\ s[i + 1 + RunLen(s, i + 1)] = "]"

\* SNYK_ID_REGEX.exec(title): the leftmost match and its group 1
SnykIdRegexExec(title) ==
    LET at == {i \in 1..Len(title) : MatchAt(title, i)}
    IN  IF at = {}
        THEN [found |-> FALSE, group |-> <<>>]
        ELSE LET i == CHOOSE j \in at : \A k \in at : j <= k
             IN  [found |-> TRUE,
                  group |-> SubSeq(title, i + 1, i + RunLen(title, i + 1))]

TitlePrefix ==
    <<"S","n","y","k"," ","v","u","l","n","e","r","a","b","i","l","i","t","y"," ">>

\* `Snyk vulnerability [${vulnerability.snykId}]`
TitleOf(snykId) == TitlePrefix \o <<"[">> \o snykId \o <<"]">>

---------------------------------------------------------------------------
(* JavaScript objects as dictionaries *)

Keys(obj) == {obj[i][1] : i \in 1..Len(obj)}

Has(obj, k) == \E i \in 1..Len(obj) : obj[i][1] = k

Get(obj, k) == obj[CHOOSE i \in 1..Len(obj) : obj[i][1] = k][2]

\* obj[k] = v: an existing key keeps its place
Put(obj, k, v) ==
    IF Has(obj, k)
    THEN [i \in 1..Len(obj) |-> IF obj[i][1] = k THEN <<k, v>> ELSE obj[i]]
    ELSE Append(obj, <<k, v>>)

---------------------------------------------------------------------------
(* The issue tracker *)

\* state: 'open', labels: SNYK_GH_LABEL
IsListed(issue) == issue.state = "open" /\ SNYK_GH_LABEL \in issue.labels

\* the numbers the list request returns, newest issue first
RECURSIVE ListedUpTo(_, _)
ListedUpTo(t, n) ==
    IF n = 0 THEN <<>>
    ELSE IF IsListed(t[n]) THEN <<n>> \o ListedUpTo(t, n - 1)
    ELSE ListedUpTo(t, n - 1)

listForRepo(t) == ListedUpTo(t, Len(t))

\* one page of the iterator
ListPage(t, p) ==
    SubSeq(listForRepo(t), (p - 1) * PerPage + 1,
           Min(p * PerPage, Len(listForRepo(t))))

HasNextPage(t, p) == p * PerPage < Len(listForRepo(t))

\* octokit.issues.create
IssuesCreate(t, title, labels, body) ==
    Append(t, [title |-> title, body |-> body, labels |-> labels,
               state |-> "open"])

\* IssuesUpdateBody as if the call also passed state: 'closed'
IssuesUpdateBodyClosing(t, n, body) ==
    [t EXCEPT ![n].body = body, ![n].state = "closed"]

\* octokit.issues.update with a body
IssuesUpdateBody(t, n, body) == [t EXCEPT ![n].body = body]

\* octokit.issues.update with state: 'closed'
IssuesUpdateState(t, n) == [t EXCEPT ![n].state = "closed"]

---------------------------------------------------------------------------
(* fetchSnykGithubIssueMap *)

\* IndexIssue as if a title without id were indexed under the whole title
IndexIssueAnyTitle(map, t, n) ==
    LET match == SnykIdRegexExec(t[n].title)
    IN  IF match.found /\ match.group # <<>>
        THEN Put(map, match.group, n)
        ELSE Put(map, t[n].title, n)

\* the body of the inner loop, for issue number n
IndexIssue(map, t, n) ==
    LET match == SnykIdRegexExec(t[n].title)
    IN  IF match.found /\ match.group # <<>>
        THEN Put(map, match.group, n)
        ELSE map

RECURSIVE IndexIssues(_, _, _)
IndexIssues(map, t, numbers) ==
    IF numbers = <<>> THEN map
    ELSE IndexIssues(IndexIssue(map, t, Head(numbers)), t, Tail(numbers))

\* console.log(`Unmatched Snyk ID for ${issue.title}`)
RECURSIVE UnmatchedLog(_, _)
UnmatchedLog(t, numbers) ==
    IF numbers = <<>> THEN <<>>
    ELSE LET match == SnykIdRegexExec(t[Head(numbers)].title)
         IN  (IF match.found /\ match.group # <<>>
              THEN <<>>
              ELSE <<[op |-> "unmatched", title |-> t[Head(numbers)].title]>>)
             \o UnmatchedLog(t, Tail(numbers))

---------------------------------------------------------------------------
(* Grouping of the report *)

\* GroupFinding as if the package were pushed without the check of its name
GroupFindingNoDedup(store, project, finding) ==
    IF finding.id # <<UNDEFINED>> /\ finding.description # UNDEFINED
    THEN IF Has(store, finding.id)
         THEN Put(store, finding.id,
                  [Get(store, finding.id) EXCEPT !.packages =
                     Append(@, [name |-> project.projectName,
                                target |-> project.displayTargetFile])])
         ELSE Put(store, finding.id,
                  [description |-> finding.description,
                   snykId |-> finding.id,
                   packages |-> <<[name |-> project.projectName,
                                   target |-> project.displayTargetFile]>>])
    ELSE store

\* the callback of vulnerabilities.forEach
GroupFinding(store, project, finding) ==
    IF finding.id # <<UNDEFINED>> /\ finding.description # UNDEFINED
    THEN IF Has(store, finding.id)
         THEN LET v == Get(store, finding.id)
              IN  IF ~ \E i \in 1..Len(v.packages) :
                         v.packages[i].name = project.projectName
                  THEN Put(store, finding.id,
                           [v EXCEPT !.packages =
                              Append(@, [name |-> project.projectName,
                                         target |-> project.displayTargetFile])])
                  ELSE store
         ELSE Put(store, finding.id,
                  [description |-> finding.description,
                   snykId |-> finding.id,
                   packages |-> <<[name |-> project.projectName,
                                   target |-> project.displayTargetFile]>>])
    ELSE store

RECURSIVE GroupFindings(_, _, _)
GroupFindings(store, project, findings) ==
    IF findings = <<>> THEN store
    ELSE GroupFindings(GroupFinding(store, project, Head(findings)),
                       project, Tail(findings))

\* synkJsonOutput.forEach
RECURSIVE GroupProjects(_, _)
GroupProjects(store, projects) ==
    IF projects = <<>> THEN store
    ELSE GroupProjects(
             GroupFindings(store, Head(projects), Head(projects).vulnerabilities),
             Tail(projects))

---------------------------------------------------------------------------
(* generateIssueBody: the text as a sequence of its pieces *)

RECURSIVE PackageLines(_)
PackageLines(packages) ==
    IF packages = <<>> THEN <<>>
    ELSE <<"* [", Head(packages).name, "](", Head(packages).target, ")">>
         \o (IF Len(packages) > 1 THEN <<"\n">> ELSE <<>>)
         \o PackageLines(Tail(packages))

generateIssueBody(vulnerability) ==
    <<"\n## Affecting Packages/Plugins\n\n">>
    \o PackageLines(vulnerability.packages)
    \o <<"\n\n", vulnerability.description, "\n">>

---------------------------------------------------------------------------
(* The three operations: the request each sends and what it logs *)

CreateRequest(vulnerability) ==
    [op |-> "create", ok |-> TRUE, number |-> 0,
     title |-> TitleOf(vulnerability.snykId),
     labels |-> {SNYK_GH_LABEL, HELP_WANTED},
     body |-> generateIssueBody(vulnerability)]

UpdateRequest(githubIssueId, vulnerability) ==
    [op |-> "update", ok |-> TRUE, number |-> githubIssueId,
     title |-> <<>>, labels |-> {},
     body |-> generateIssueBody(vulnerability)]

CloseRequest(githubIssueId) ==
    [op |-> "close", ok |-> TRUE, number |-> githubIssueId,
     title |-> <<>>, labels |-> {}, body |-> <<>>]

ListRequest(p) ==
    [op |-> "list", ok |-> TRUE, number |-> p,
     title |-> <<>>, labels |-> {}, body |-> <<>>]

Failed(request) == [request EXCEPT !.ok = FALSE]

\* what the tracker is after it served the request
Served(t, request) ==
    CASE request.op = "create" ->
             IssuesCreate(t, request.title, request.labels, request.body)
      [] request.op = "update" -> IssuesUpdateBody(t, request.number, request.body)
      [] request.op = "close" -> IssuesUpdateState(t, request.number)
      [] OTHER -> t

CreateLog(vulnerability) ==
    [op |-> "create", snykId |-> vulnerability.snykId, number |-> 0,
     packages |-> vulnerability.packages]

UpdateLog(githubIssueId, vulnerability) ==
    [op |-> "update", snykId |-> vulnerability.snykId,
     number |-> githubIssueId, packages |-> <<>>]

CloseLog(githubIssueId) ==
    [op |-> "close", snykId |-> <<>>, number |-> githubIssueId,
     packages |-> <<>>]

\* if (snykGithubIssueMap[id])
ShouldUpdate(map, id) == Has(map, id) /\ Get(map, id) # 0

\* ShouldClose as if the negation were missing
ShouldCloseInverted(store, snykId) == Has(store, snykId)

\* if (!vulnerabilityStore[snykId])
ShouldClose(store, snykId) == ~ Has(store, snykId)

---------------------------------------------------------------------------
(* Inputs *)

IdA == <<"X", "-", "1">>

IdB == <<"X", "-", "9">>

\* an id with a character outside the class of SNYK_ID_REGEX
IdDot == <<"X", ".", "1">>

TargetOf(name) == IF name = "pkgA" THEN "lock1" ELSE "lock2"

Project(name, target, findings) ==
    [projectName |-> name, displayTargetFile |-> target,
     vulnerabilities |-> findings]

Finding(id, description) == [id |-> id, description |-> description]

\* reports of Spec: every project has one finding
Projects ==
    {Project(name, TargetOf(name), <<Finding(id, "desc")>>) :
        name \in {"pkgA", "pkgB"}, id \in {IdA, IdDot}}

Reports == SeqsUpTo(Projects, MaxProjects)

Issue(title, labels, state) ==
    [title |-> title, body |-> <<"old">>, labels |-> labels, state |-> state]

\* issues of the tracker before the first run
Issues ==
    {Issue(TitleOf(id), {SNYK_GH_LABEL, HELP_WANTED}, "open") :
        id \in {IdA, IdB, IdDot}}
    \cup {Issue(TitleOf(IdA), {SNYK_GH_LABEL, HELP_WANTED}, "closed"),
          Issue(TitleOf(IdA), {HELP_WANTED}, "open")}

Trackers == SeqsUpTo(Issues, MaxIssues)

\* reports of SpecGroup: findings without id or description, an empty id,
\* repeated names
GroupFindingsOf ==
    {Finding(IdA, "desc"), Finding(IdB, "desc"), Finding(<<>>, "desc"),
     Finding(<<UNDEFINED>>, "desc"), Finding(IdA, UNDEFINED)}

GroupProjectsOf ==
    {Project(nt[1], nt[2], fs) :
        nt \in {<<"pkgA", "lock1">>, <<"pkgA", "lock2">>, <<"pkgB", "lock2">>},
        fs \in SeqsUpTo(GroupFindingsOf, MaxFindings)}

GroupReports == SeqsUpTo(GroupProjectsOf, MaxProjects)

\* ids of SpecTitle: every string over these characters up to MaxIdLen
TitleAlphabet == {"X", "x", "1", "-", ":", ".", "[", "]", " "}

TitleReports ==
    {<<Project("pkgA", "lock1", <<Finding(id, "desc")>>)>> :
        id \in SeqsUpTo(TitleAlphabet, MaxIdLen)}

---------------------------------------------------------------------------
(* The script *)

StartOfRun ==
    /\ pc = "fetch"
    /\ page = 1
    /\ snykGithubIssueMap = <<>>
    /\ vulnerabilityStore = <<>>
    /\ cursor = 1
    /\ requests = <<>>
    /\ log = <<>>
    /\ exitCode = <<>>

InitWith(reports, trackers, dry) ==
    /\ report \in reports
    /\ tracker \in trackers
    /\ isDryRun \in dry
    /\ tracker0 = tracker
    /\ run = 1
    /\ prev = [ok |-> FALSE, dry |-> FALSE, log |-> <<>>]
    /\ StartOfRun

Init == InitWith(Reports, Trackers, BOOLEAN)

\* Abort as if the error were caught and logged where the call is made
AbortSwallowed(request) ==
    /\ requests' = Append(requests, Failed(request))
    /\ pc' = pc
    /\ exitCode' = exitCode

\* main().catch: console.error(error.stack); process.exit(1)
Abort(request) ==
    /\ requests' = Append(requests, Failed(request))
    /\ pc' = "failed"
    /\ exitCode' = <<1>>

\* one iteration of for await (const { data: issues } of iterator)
FetchPage ==
    /\ pc = "fetch"
    /\ requests' = Append(requests, ListRequest(page))
    /\ snykGithubIssueMap' =
           IndexIssues(snykGithubIssueMap, tracker, ListPage(tracker, page))
    /\ log' = log \o UnmatchedLog(tracker, ListPage(tracker, page))
    /\ IF HasNextPage(tracker, page)
       THEN page' = page + 1 /\ pc' = "fetch"
       ELSE page' = page /\ pc' = "group"
    /\ UNCHANGED <<tracker, report, isDryRun, vulnerabilityStore, cursor,
                   exitCode, run, tracker0, prev>>

\* the list request is rejected
FetchFail ==
    /\ pc = "fetch"
    /\ Abort(ListRequest(page))
    /\ UNCHANGED <<tracker, report, isDryRun, page, snykGithubIssueMap,
                   vulnerabilityStore, cursor, log, run, tracker0, prev>>

\* synkJsonOutput.forEach(...): synchronous, no call to the tracker
GroupStep ==
    /\ pc = "group"
    /\ vulnerabilityStore' = GroupProjects(<<>>, report)
    /\ pc' = "update"
    /\ cursor' = 1
    /\ UNCHANGED <<tracker, report, isDryRun, page, snykGithubIssueMap,
                   requests, log, exitCode, run, tracker0, prev>>

\* Call as if the request were sent without looking at isDryRun
CallIgnoringDryRun(entry, request) ==
    /\ log' = Append(log, entry)
    /\ requests' = Append(requests, request)
    /\ tracker' = Served(tracker, request)
    /\ cursor' = cursor + 1
    /\ UNCHANGED <<report, isDryRun, pc, page, snykGithubIssueMap,
                   vulnerabilityStore, exitCode, run, tracker0, prev>>

\* a call of one of the three operations: log, then the request unless dry
Call(entry, request) ==
    /\ log' = Append(log, entry)
    /\ IF isDryRun
       THEN UNCHANGED <<tracker, requests>>
       ELSE /\ requests' = Append(requests, request)
            /\ tracker' = Served(tracker, request)
    /\ cursor' = cursor + 1
    /\ UNCHANGED <<report, isDryRun, pc, page, snykGithubIssueMap,
                   vulnerabilityStore, exitCode, run, tracker0, prev>>

\* the same call with the request rejected: the error leaves main
CallFail(entry, request) ==
    /\ ~ isDryRun
    /\ log' = Append(log, entry)
    /\ Abort(request)
    /\ UNCHANGED <<tracker, report, isDryRun, page, snykGithubIssueMap,
                   vulnerabilityStore, cursor, run, tracker0, prev>>

InUpdateLoop == pc = "update" /\ cursor <= Len(vulnerabilityStore)

InCloseLoop == pc = "close" /\ cursor <= Len(snykGithubIssueMap)

UpdateStep ==
    /\ InUpdateLoop
    /\ LET id == vulnerabilityStore[cursor][1]
           vulnerability == vulnerabilityStore[cursor][2]
       IN  /\ ShouldUpdate(snykGithubIssueMap, id)
           /\ Call(UpdateLog(Get(snykGithubIssueMap, id), vulnerability),
                   UpdateRequest(Get(snykGithubIssueMap, id), vulnerability))

UpdateFail ==
    /\ InUpdateLoop
    /\ LET id == vulnerabilityStore[cursor][1]
           vulnerability == vulnerabilityStore[cursor][2]
       IN  /\ ShouldUpdate(snykGithubIssueMap, id)
           /\ CallFail(UpdateLog(Get(snykGithubIssueMap, id), vulnerability),
                       UpdateRequest(Get(snykGithubIssueMap, id), vulnerability))

\* CreateStep as if the created issue were entered into the index
CreateStepIndexing ==
    /\ InUpdateLoop
    /\ LET id == vulnerabilityStore[cursor][1]
           vulnerability == vulnerabilityStore[cursor][2]
       IN  /\ ~ ShouldUpdate(snykGithubIssueMap, id)
           /\ log' = Append(log, CreateLog(vulnerability))
           /\ IF isDryRun
              THEN UNCHANGED <<tracker, requests, snykGithubIssueMap>>
              ELSE /\ requests' = Append(requests, CreateRequest(vulnerability))
                   /\ tracker' = Served(tracker, CreateRequest(vulnerability))
                   /\ snykGithubIssueMap' =
                          Put(snykGithubIssueMap, id, Len(tracker) + 1)
           /\ cursor' = cursor + 1
           /\ UNCHANGED <<report, isDryRun, pc, page, vulnerabilityStore,
                          exitCode, run, tracker0, prev>>

CreateStep ==
    /\ InUpdateLoop
    /\ LET id == vulnerabilityStore[cursor][1]
           vulnerability == vulnerabilityStore[cursor][2]
       IN  /\ ~ ShouldUpdate(snykGithubIssueMap, id)
           /\ Call(CreateLog(vulnerability), CreateRequest(vulnerability))

CreateFail ==
    /\ InUpdateLoop
    /\ LET id == vulnerabilityStore[cursor][1]
           vulnerability == vulnerabilityStore[cursor][2]
       IN  /\ ~ ShouldUpdate(snykGithubIssueMap, id)
           /\ CallFail(CreateLog(vulnerability), CreateRequest(vulnerability))

\* the first loop is over
EndUpdates ==
    /\ pc = "update"
    /\ cursor > Len(vulnerabilityStore)
    /\ pc' = "close"
    /\ cursor' = 1
    /\ UNCHANGED <<tracker, report, isDryRun, page, snykGithubIssueMap,
                   vulnerabilityStore, requests, log, exitCode, run,
                   tracker0, prev>>

CloseStep ==
    /\ InCloseLoop
    /\ ShouldClose(vulnerabilityStore, snykGithubIssueMap[cursor][1])
    /\ Call(CloseLog(snykGithubIssueMap[cursor][2]),
            CloseRequest(snykGithubIssueMap[cursor][2]))

CloseFail ==
    /\ InCloseLoop
    /\ ShouldClose(vulnerabilityStore, snykGithubIssueMap[cursor][1])
    /\ CallFail(CloseLog(snykGithubIssueMap[cursor][2]),
                CloseRequest(snykGithubIssueMap[cursor][2]))

\* an indexed id that is still reported
KeepStep ==
    /\ InCloseLoop
    /\ ~ ShouldClose(vulnerabilityStore, snykGithubIssueMap[cursor][1])
    /\ cursor' = cursor + 1
    /\ UNCHANGED <<tracker, report, isDryRun, pc, page, snykGithubIssueMap,
                   vulnerabilityStore, requests, log, exitCode, run,
                   tracker0, prev>>

\* main returns
Finish ==
    /\ pc = "close"
    /\ cursor > Len(snykGithubIssueMap)
    /\ pc' = "done"
    /\ exitCode' = <<0>>
    /\ UNCHANGED <<tracker, report, isDryRun, page, snykGithubIssueMap,
                   vulnerabilityStore, cursor, requests, log, run,
                   tracker0, prev>>

\* the script is started again with the same snyk.json
Rerun ==
    /\ pc = "done"
    /\ run = 1
    /\ run' = 2
    /\ isDryRun' \in BOOLEAN
    /\ prev' = [ok |-> TRUE, dry |-> isDryRun, log |-> log]
    /\ tracker0' = tracker
    /\ pc' = "fetch"
    /\ page' = 1
    /\ snykGithubIssueMap' = <<>>
    /\ vulnerabilityStore' = <<>>
    /\ cursor' = 1
    /\ requests' = <<>>
    /\ log' = <<>>
    /\ exitCode' = <<>>
    /\ UNCHANGED <<tracker, report>>

Next ==
    \/ FetchPage
    \/ FetchFail
    \/ GroupStep
    \/ UpdateStep
    \/ UpdateFail
    \/ CreateStep
    \/ CreateFail
    \/ EndUpdates
    \/ CloseStep
    \/ CloseFail
    \/ KeepStep
    \/ Finish
    \/ Rerun

Spec == Init /\ [][Next]_vars

\* grouping alone, over reports with invalid findings and repeated names
InitGroup == InitWith(GroupReports, {<<>>}, {TRUE})

NextGroup == FetchPage \/ GroupStep

SpecGroup == InitGroup /\ [][NextGroup]_vars

\* a live run that creates the issue of one id, and the run after it
InitTitle == InitWith(TitleReports, {<<>>}, {FALSE})

NextTitle ==
    \/ FetchPage
    \/ GroupStep
    \/ CreateStep
    \/ UpdateStep
    \/ EndUpdates
    \/ Finish
    \/ Rerun

SpecTitle == InitTitle /\ [][NextTitle]_vars

---------------------------------------------------------------------------
(* Properties *)

\* positions of the create, update and close requests of this run
Mutations == {i \in 1..Len(requests) : requests[i].op # "list"}

\* how many requests of this run are the given operation on the given target
Sent(op, number, title) ==
    Cardinality({i \in Mutations : /\ requests[i].op = op
                                   /\ requests[i].number = number
                                   /\ requests[i].title = title})

DoneLive == pc = "done" /\ ~ isDryRun

C2_SecondRunOnlyUpdates ==
    (run = 2 /\ prev.ok /\ ~ prev.dry /\ ~ isDryRun) =>
        \A i \in Mutations : requests[i].op = "update"

\* C3: a dry run sends no create, update or close and leaves the tracker as
\* it was; a live run on the same report and tracker logs the same sequence
\* of decisions as the dry run before it.
C3_DryRunSilent ==
    /\ isDryRun => Mutations = {} /\ tracker = tracker0
    /\ (run = 2 /\ prev.dry /\ DoneLive) => log = prev.log

\* a live run after a dry run, with a create and a close among its decisions
C3_Witness ==
    /\ run = 2 /\ prev.dry /\ DoneLive
    /\ \E i \in 1..Len(prev.log) : prev.log[i].op = "create"
    /\ \E i \in 1..Len(prev.log) : prev.log[i].op = "close"
    /\ Cardinality(Mutations) >= 2

\* the index that one reading of the tracker, as it was when the run
\* started, gives
SnapshotIndex == IndexIssues(<<>>, tracker0, listForRepo(tracker0))

\* C4: no list request follows a create, update or close; once the fetch is
\* over the index is the snapshot of the tracker at the start of the run,
\* and no later step of the run changes it.
C4_SnapshotBeforeMutations ==
    /\ [](/\ \A i, j \in 1..Len(requests) :
                 (i < j /\ requests[j].op = "list") => requests[i].op = "list"
          /\ pc \in {"group", "update", "close", "done"} =>
                 snykGithubIssueMap = SnapshotIndex)
    /\ [][(pc # "fetch" /\ run' = run) =>
              snykGithubIssueMap' = snykGithubIssueMap]_vars

\* two pages were read, a create has changed the tracker, and a decision of
\* the close loop is still to be taken
C4_Witness ==
    /\ InCloseLoop
    /\ tracker # tracker0
    /\ Len(snykGithubIssueMap) = 2
    /\ \E i \in Mutations : requests[i].op = "create"

\* the tracker after it served the requests that succeeded
RECURSIVE ServedAll(_, _)
ServedAll(t, reqs) ==
    IF reqs = <<>> THEN t
    ELSE ServedAll(IF Head(reqs).ok THEN Served(t, Head(reqs)) ELSE t,
                   Tail(reqs))

\* C5: a request that fails is the last request of the run (no retry, no
\* further call), the process exits with code 1 exactly then, and the
\* tracker keeps every mutation that succeeded before it.
C5_AbortOnError ==
    /\ \A i \in 1..Len(requests) :
           ~ requests[i].ok =>
               i = Len(requests) /\ pc = "failed" /\ exitCode = <<1>>
    /\ (pc = "failed" \/ exitCode = <<1>>) =>
           requests # <<>> /\ ~ requests[Len(requests)].ok
    /\ tracker = ServedAll(tracker0, requests)

\* a close failed after an update had been applied
C5_Witness ==
    /\ pc = "failed"
    /\ requests[Len(requests)].op = "close"
    /\ \E i \in Mutations : requests[i].op = "update" /\ requests[i].ok
    /\ tracker # tracker0

ValidFinding(finding) ==
    finding.id # <<UNDEFINED>> /\ finding.description # UNDEFINED

\* the projects of the report with a valid finding of id
Reporting(id) ==
    {i \in 1..Len(report) :
        \E k \in 1..Len(report[i].vulnerabilities) :
            /\ ValidFinding(report[i].vulnerabilities[k])
            /\ report[i].vulnerabilities[k].id = id}

\* the first project named name that reports id
FirstReporting(id, name) ==
    CHOOSE i \in Reporting(id) :
        /\ report[i].projectName = name
        /\ \A j \in Reporting(id) : report[j].projectName = name => i <= j

\* the id property of every finding of the report
ReportedIds ==
    UNION {{report[i].vulnerabilities[k].id :
                k \in 1..Len(report[i].vulnerabilities)} :
           i \in 1..Len(report)}

\* C6: the grouped map has one record for every id of a finding that has
\* an id and a description, nothing for the other findings, and each
\* record lists the projects reporting the id once per name, in first-seen
\* order, each with the target file of its first occurrence.
C6_GroupingCorrect ==
    pc = "update" =>
        /\ Keys(vulnerabilityStore) =
               {id \in ReportedIds : Reporting(id) # {}}
        /\ \A i, j \in 1..Len(vulnerabilityStore) :
               vulnerabilityStore[i][1] = vulnerabilityStore[j][1] => i = j
        /\ \A e \in 1..Len(vulnerabilityStore) :
               LET id == vulnerabilityStore[e][1]
                   v == vulnerabilityStore[e][2]
               IN  /\ v.snykId = id
                   /\ {v.packages[a].name : a \in 1..Len(v.packages)} =
                          {report[i].projectName : i \in Reporting(id)}
                   /\ \A a, b \in 1..Len(v.packages) :
                          a < b => FirstReporting(id, v.packages[a].name)
                                       < FirstReporting(id, v.packages[b].name)
                   /\ \A a \in 1..Len(v.packages) :
                          v.packages[a].target =
                              report[FirstReporting(id, v.packages[a].name)]
                                  .displayTargetFile

\* two projects of the same name and different target files report the id,
\* and a finding without description was skipped
C6_Witness ==
    /\ pc = "update"
    /\ Len(report) = 2
    /\ report[1].projectName = report[2].projectName
    /\ report[1].displayTargetFile # report[2].displayTargetFile
    /\ Reporting(IdA) = {1, 2}
    /\ Len(vulnerabilityStore) = 1
    /\ Len(vulnerabilityStore[1][2].packages) = 1

\* the listed issues of the run's start whose title has no id
Unmatched ==
    {n \in 1..Len(tracker0) :
        IsListed(tracker0[n]) /\ ~ SnykIdRegexExec(tracker0[n].title).found}

\* C7: an open labelled issue whose title has no id is logged and left out
\* of the index without stopping the run; the run neither updates nor
\* closes it, and a reported id whose title it carries gets a CREATE.
C7_UnmatchedInvisible ==
    \A n \in Unmatched :
        /\ \A i \in 1..Len(snykGithubIssueMap) : snykGithubIssueMap[i][2] # n
        /\ \A i \in Mutations : requests[i].number # n
        /\ tracker[n] = tracker0[n]
        /\ pc = "failed" => ~ requests[Len(requests)].ok
        /\ pc \in {"group", "update", "close", "done"} =>
               \E i \in 1..Len(log) :
                   log[i] = [op |-> "unmatched", title |-> tracker0[n].title]
        /\ DoneLive =>
               \A id \in Keys(vulnerabilityStore) :
                   tracker0[n].title = TitleOf(id) =>
                       Sent("create", 0, TitleOf(id)) = 1

\* a completed live run created an issue for a reported id although an open
\* labelled issue carries the id in its title
C7_Witness ==
    /\ DoneLive
    /\ \E n \in Unmatched :
           /\ tracker0[n].title = TitleOf(IdDot)
           /\ Has(vulnerabilityStore, IdDot)
           /\ Sent("create", 0, TitleOf(IdDot)) = 1
    /\ Cardinality(Mutations) = 2

\* the listed issues of the run's start whose title has an id
Matched ==
    {n \in 1..Len(tracker0) :
        IsListed(tracker0[n]) /\ SnykIdRegexExec(tracker0[n].title).found}

\* C8: every open labelled issue whose title has an id has its own entry in
\* the index, and a live run that completes sends it exactly one UPDATE or
\* one CLOSE.
C8_IndexOneToOne ==
    /\ pc \in {"group", "update", "close", "done"} =>
           /\ \A n \in Matched :
                  \E i \in 1..Len(snykGithubIssueMap) :
                      snykGithubIssueMap[i][2] = n
           /\ Len(snykGithubIssueMap) = Cardinality(Matched)
    /\ DoneLive =>
           \A n \in Matched :
               Sent("update", n, <<>>) + Sent("close", n, <<>>) = 1

\* C9: an UPDATE changes the body of its issue and nothing else, a CLOSE
\* changes the state of its issue to closed and nothing else, a CREATE adds
\* one open issue titled 'Snyk vulnerability [<id>]' with the two labels and
\* changes no existing issue; no other step changes the tracker.
C9_MutationFrame ==
    [][LET r == requests'[Len(requests')]
           Others(n) == \A m \in 1..Len(tracker) : m # n => tracker'[m] = tracker[m]
       IN  IF Len(requests') = Len(requests) + 1 /\ r.ok /\ r.op = "update"
           THEN /\ Len(tracker') = Len(tracker)
                /\ Others(r.number)
                /\ tracker'[r.number].body = r.body
                /\ tracker'[r.number].title = tracker[r.number].title
                /\ tracker'[r.number].labels = tracker[r.number].labels
                /\ tracker'[r.number].state = tracker[r.number].state
           ELSE IF Len(requests') = Len(requests) + 1 /\ r.ok /\ r.op = "close"
           THEN /\ Len(tracker') = Len(tracker)
                /\ Others(r.number)
                /\ tracker'[r.number].state = "closed"
                /\ tracker'[r.number].body = tracker[r.number].body
                /\ tracker'[r.number].title = tracker[r.number].title
                /\ tracker'[r.number].labels = tracker[r.number].labels
           ELSE IF Len(requests') = Len(requests) + 1 /\ r.ok /\ r.op = "create"
           THEN /\ Len(tracker') = Len(tracker) + 1
                /\ Others(Len(tracker'))
                /\ tracker'[Len(tracker')].state = "open"
                /\ tracker'[Len(tracker')].title =
                       TitlePrefix \o <<"[">> \o log'[Len(log')].snykId \o <<"]">>
                /\ tracker'[Len(tracker')].labels = {"snyk-vulnerability", "help wanted"}
           ELSE tracker' = tracker]_vars

\* a run that has updated one issue, created another and closed a third
C9_Witness ==
    /\ \E i \in Mutations : requests[i].op = "update"
    /\ \E i \in Mutations : requests[i].op = "create"
    /\ \E i \in Mutations : requests[i].op = "close"
    /\ \E n \in 1..Len(tracker0) :
           tracker[n].body # tracker0[n].body /\ tracker[n].state = "open"
    /\ \E n \in 1..Len(tracker0) :
           tracker[n].state # tracker0[n].state /\ tracker[n].body = <<"old">>

\* C10: the id of every issue a live run created is, in the next run, the
\* key under which the index holds that issue.
C10_TitleRoundTrip ==
    (run = 2 /\ ~ prev.dry /\ pc \in {"group", "update", "close", "done"}) =>
        \A i \in 1..Len(prev.log) :
            prev.log[i].op = "create" =>
                /\ Has(snykGithubIssueMap, prev.log[i].snykId)
                /\ tracker0[Get(snykGithubIssueMap, prev.log[i].snykId)].title
                       = TitleOf(prev.log[i].snykId)

=============================================================================
